---- MODULE Spec2Model ----
(***************************************************************************)
(* Model of src/app.py: the Dash callbacks of the building-systems graph   *)
(* editor.  The dcc.Store components and the component properties the      *)
(* callbacks read and write are the variables; every callback is an        *)
(* operator computing its outputs from its inputs, wrapped by the action   *)
(* of the user event that triggers it.                                     *)
(***************************************************************************)
EXTENDS Integers, Sequences, FiniteSets, TLC

VARIABLES
    elements_store,     \* dcc.Store "elements-store": list of element dicts
    collapsed_store,    \* dcc.Store "collapsed-store": ids (read only through set())
    selected_store,     \* dcc.Store "selected-store"
    last_tap,           \* dcc.Store "last-tap": {"timestamp", "node"}
    right_click_node,   \* dcc.Store "right-click-node"
    connect_mode,       \* Checklist "connect-mode".value, a set of option values
    tapNodeData,        \* graph.tapNodeData: the id of the node tapped last
    tapNode,            \* graph.tapNode: its rendered position
    context_menu,       \* "context-menu".style.display
    context_type_select,\* "context-type-select".value
    edit_label_dialog,  \* "edit-label-dialog".style.display
    label_input,        \* "label-input".value
    graph_elements,     \* graph.elements, written by sync_graph
    selection_label,    \* "selection-label".children, written by sync_graph
    now,                \* the latest reading of the wall clock by _now_ms()
    pending,            \* callbacks requested by the tap in flight, not yet answered
    snapshot,           \* the State values the renderer sent with those requests
    events              \* user events so far

vars == <<elements_store, collapsed_store, selected_store, last_tap,
          right_click_node, connect_mode, tapNodeData, tapNode, context_menu,
          context_type_select, edit_label_dialog, label_input, graph_elements,
          selection_label, now, pending, snapshot, events>>

-----------------------------------------------------------------------------
(* Bounds of the model *)

\* user events (taps, clicks, typed texts) in one session
MaxEvents == 5
\* nodes of the stores the visibility functions are applied to
MaxVisNodes == 3
\* how far the wall clock advances in one session, in steps of ClockStep
MaxTicks == 1
\* canvas double-clicks before the dialogs are opened
MaxCanvasNodes == 2

-----------------------------------------------------------------------------
(* Python values *)

None == "None"
NoPosition == <<>>

Truthy(s) == s # None /\ s # ""

\* dict.get(key, default) on a field that is None when the key is absent
Get(v, default) == IF v = None THEN default ELSE v

-----------------------------------------------------------------------------
(* NODE_TYPES / TYPE_MAP *)

TypeKeys ==
    {"building", "hot-water", "cold-water", "heating-curve", "sensors", "ahu", "zone"}

TYPE_MAP ==
    [k \in TypeKeys |->
        CASE k = "building"      -> [key |-> k, label |-> "Building", color |-> "#38bdf8"]
          [] k = "hot-water"     -> [key |-> k, label |-> "Hot Water Loop", color |-> "#f97316"]
          [] k = "cold-water"    -> [key |-> k, label |-> "Cold Water Loop", color |-> "#60a5fa"]
          [] k = "heating-curve" -> [key |-> k, label |-> "Heating Curve", color |-> "#facc15"]
          [] k = "sensors"       -> [key |-> k, label |-> "Sensors", color |-> "#a855f7"]
          [] k = "ahu"           -> [key |-> k, label |-> "Air Handling Units", color |-> "#22c55e"]
          [] k = "zone"          -> [key |-> k, label |-> "Zones", color |-> "#f472b6"]]

\* the double-tap window of handle_node_tap, in ms
DoubleTapWindow == 650

-----------------------------------------------------------------------------
(* Elements.  An element dict {"data": {...}, "classes": ..., "position": ...}
   is a flat record; a key the dict does not have is None (NoPosition for
   "position"). *)

make_node(node_id, label, type_key, parent, position) ==
    [id          |-> node_id,
     label       |-> label \o "\n" \o TYPE_MAP[type_key].label,
     customLabel |-> label,
     type        |-> type_key,
     typeLabel   |-> TYPE_MAP[type_key].label,
     color       |-> TYPE_MAP[type_key].color,
     parent      |-> IF Truthy(parent) THEN parent ELSE None,
     source      |-> None,
     target      |-> None,
     classes     |-> type_key,
     position    |-> position]

make_edge(source, target) ==
    [id          |-> "edge-" \o source \o "-" \o target,
     label       |-> None,
     customLabel |-> None,
     type        |-> None,
     typeLabel   |-> None,
     color       |-> None,
     parent      |-> None,
     source      |-> source,
     target      |-> target,
     classes     |-> None,
     position    |-> NoPosition]

initial_elements == <<make_node("node-root", "Building", "building", None, NoPosition)>>

\* "source" in data
IsEdge(e) == e.source # None
IsNode(e) == ~IsEdge(e)

Range(s) == {s[i] : i \in DOMAIN s}

NodeIds(elements) == {e.id : e \in {x \in Range(elements) : IsNode(x)}}
Edges(elements) == {e \in Range(elements) : IsEdge(e)}

-----------------------------------------------------------------------------
(* Hierarchy index and visibility *)

ChildIds(elements, p) ==
    LET kids == SelectSeq(elements, LAMBDA e : e.parent = p)
    IN  [i \in 1..Len(kids) |-> kids[i].id]

build_children_map(elements) ==
    [p \in {e.parent : e \in Range(elements)} \ {None} |-> ChildIds(elements, p)]

\* children_map.get(key, [])
MapGet(children_map, key) ==
    IF key \in DOMAIN children_map THEN children_map[key] ELSE <<>>

\* The while loop of collect_descendants.  `budget` is the number of
\* iterations followed: a traversal of an acyclic children map over m parent
\* links pops one queue entry per path from the root, fewer than 2^m, so a
\* loop still running after that many iterations never ends.
\* a traversal that stops at the children of the root
collect_loop_children_only(queue, hidden, children_map, budget) ==
    [hidden |-> Range(queue), returns |-> TRUE]

RECURSIVE collect_loop(_, _, _, _)
collect_loop(queue, hidden, children_map, budget) ==
    IF queue = <<>> THEN [hidden |-> hidden, returns |-> TRUE]
    ELSE IF budget = 0 THEN [hidden |-> hidden, returns |-> FALSE]
    ELSE LET current == Head(queue)
         IN  collect_loop(Tail(queue) \o MapGet(children_map, current),
                          hidden \cup {current}, children_map, budget - 1)

LinkCount(children_map) ==
    LET RECURSIVE Sum(_)
        Sum(S) == IF S = {} THEN 0
                  ELSE LET p == CHOOSE x \in S : TRUE
                       IN  Len(children_map[p]) + Sum(S \ {p})
    IN  Sum(DOMAIN children_map)

\* a traversal that starts at the root instead of at its children
collect_descendants_from_root(root_id, children_map) ==
    collect_loop(<<root_id>>, {}, children_map, 2 ^ LinkCount(children_map))

collect_descendants(root_id, children_map) ==
    collect_loop(MapGet(children_map, root_id), {}, children_map,
                 2 ^ LinkCount(children_map))

\* the hidden set apply_visibility accumulates over the collapsed ids
hidden_nodes(elements, collapsed) ==
    LET children_map == build_children_map(elements)
    IN  [hidden  |-> UNION {collect_descendants(c, children_map).hidden : c \in collapsed},
         returns |-> \A c \in collapsed : collect_descendants(c, children_map).returns]

\* Rendered classes are the list of class names of the space-separated string.
ClassList(base_classes) == IF base_classes = "" THEN <<>> ELSE <<base_classes>>

\* an edge hidden by its source alone
visible_element_by_source(element, hidden) ==
    LET element_hidden ==
            IF element.source # None /\ element.target # None
            THEN element.source \in hidden
            ELSE element.id \in hidden
        base_classes == Get(element.classes, "")
    IN  [element EXCEPT !.classes =
            IF element_hidden THEN <<"hidden">> \o ClassList(base_classes)
            ELSE ClassList(base_classes)]

visible_element(element, hidden) ==
    LET element_hidden ==
            IF element.source # None /\ element.target # None
            THEN element.source \in hidden \/ element.target \in hidden
            ELSE element.id \in hidden
        base_classes == Get(element.classes, "")
    IN  [element EXCEPT !.classes =
            IF element_hidden THEN <<"hidden">> \o ClassList(base_classes)
            ELSE ClassList(base_classes)]

apply_visibility(elements, collapsed) ==
    LET h == hidden_nodes(elements, collapsed)
    IN  [elements |-> [i \in DOMAIN elements |-> visible_element(elements[i], h.hidden)],
         returns  |-> h.returns]


\* sync_graph: the payload written to graph.elements and "selection-label".
\* `returns` is FALSE when apply_visibility never returns, and then the
\* callback writes nothing.
node_classes(element, selected) ==
    LET type_key == Get(element.type, "sensors")
        existing == element.classes
        hidden_class == IF "hidden" \in Range(existing) THEN <<"hidden">> ELSE <<>>
        classes == hidden_class \o <<type_key>>
    IN  IF element.id = selected THEN <<"selected">> \o classes ELSE classes

sync_graph(elements, collapsed, selected) ==
    LET visible == apply_visibility(elements, collapsed)
        processed == [i \in DOMAIN elements |->
                        IF IsNode(visible.elements[i])
                        THEN [visible.elements[i] EXCEPT
                                !.classes = node_classes(visible.elements[i], selected)]
                        ELSE visible.elements[i]]
        matches == {i \in DOMAIN elements : Truthy(selected) /\ elements[i].id = selected}
        first == CHOOSE i \in matches : \A j \in matches : i <= j
        selected_label ==
            IF matches = {} THEN "None"
            ELSE Get(elements[first].typeLabel, "") \o ": "
                    \o Get(elements[first].customLabel, "")
    IN  [elements |-> processed, selection_label |-> selected_label,
         returns |-> visible.returns]

-----------------------------------------------------------------------------
(* Callbacks: each operator maps the callback's inputs to its outputs *)

\* handle_node_tap recording the double-tap as the last tap on the tapped node
handle_node_tap_keeps_timing(tap_node_data, tap_node, elements, selected, last, timestamp, node_id) ==
    IF tap_node_data = None
    THEN [elements |-> elements, selected |-> selected, last_tap |-> last]
    ELSE LET tapped_id == tap_node_data
         IN  IF last.node = tapped_id /\ (timestamp - last.timestamp) < DoubleTapWindow
             THEN LET position == IF tap_node # NoPosition
                                  THEN <<tap_node[1] + 60, tap_node[2] + 40>>
                                  ELSE NoPosition
                      new_node == make_node(node_id, "New Node", "sensors", tapped_id, position)
                  IN  [elements |-> Append(elements, new_node),
                       selected |-> node_id,
                       last_tap |-> [node |-> tapped_id, timestamp |-> timestamp]]
             ELSE [elements |-> elements,
                   selected |-> tapped_id,
                   last_tap |-> [node |-> tapped_id, timestamp |-> timestamp]]

\* handle_node_tap with a window that includes a gap of exactly 650 ms
handle_node_tap_closed_window(tap_node_data, tap_node, elements, selected, last, timestamp, node_id) ==
    IF tap_node_data = None
    THEN [elements |-> elements, selected |-> selected, last_tap |-> last]
    ELSE LET tapped_id == tap_node_data
         IN  IF last.node = tapped_id /\ (timestamp - last.timestamp) <= DoubleTapWindow
             THEN LET position == IF tap_node # NoPosition
                                  THEN <<tap_node[1] + 60, tap_node[2] + 40>>
                                  ELSE NoPosition
                      new_node == make_node(node_id, "New Node", "sensors", tapped_id, position)
                  IN  [elements |-> Append(elements, new_node),
                       selected |-> node_id,
                       last_tap |-> [node |-> node_id, timestamp |-> 0]]
             ELSE [elements |-> elements,
                   selected |-> tapped_id,
                   last_tap |-> [node |-> tapped_id, timestamp |-> timestamp]]

handle_node_tap(tap_node_data, tap_node, elements, selected, last, timestamp, node_id) ==
    IF tap_node_data = None
    THEN [elements |-> elements, selected |-> selected, last_tap |-> last]
    ELSE LET tapped_id == tap_node_data
         IN  IF last.node = tapped_id /\ (timestamp - last.timestamp) < DoubleTapWindow
             THEN LET position == IF tap_node # NoPosition
                                  THEN <<tap_node[1] + 60, tap_node[2] + 40>>
                                  ELSE NoPosition
                      new_node == make_node(node_id, "New Node", "sensors", tapped_id, position)
                  IN  [elements |-> Append(elements, new_node),
                       selected |-> node_id,
                       last_tap |-> [node |-> node_id, timestamp |-> 0]]
             ELSE [elements |-> elements,
                   selected |-> tapped_id,
                   last_tap |-> [node |-> tapped_id, timestamp |-> timestamp]]

\* connect_nodes looking for an existing edge in the direction of the new one only
connect_nodes_one_direction(mode, tap_node_data, elements, selected) ==
    IF tap_node_data = None \/ "on" \notin mode THEN elements
    ELSE LET target_id == tap_node_data
             existing_edges == {<<e.source, e.target>> :
                                    e \in {x \in Range(elements) : Truthy(x.source)}}
         IN  IF ~Truthy(target_id) \/ target_id = selected THEN elements
             ELSE IF <<selected, target_id>> \in existing_edges THEN elements
             ELSE Append(elements, make_edge(selected, target_id))

\* connect_nodes without the comparison of the tapped id with the selection
connect_nodes_links_selection(mode, tap_node_data, elements, selected) ==
    IF tap_node_data = None \/ "on" \notin mode THEN elements
    ELSE LET target_id == tap_node_data
             existing_edges == {<<e.source, e.target>> :
                                    e \in {x \in Range(elements) : Truthy(x.source)}}
         IN  IF ~Truthy(target_id) THEN elements
             ELSE IF <<selected, target_id>> \in existing_edges
                     \/ <<target_id, selected>> \in existing_edges THEN elements
             ELSE Append(elements, make_edge(selected, target_id))

connect_nodes(mode, tap_node_data, elements, selected) ==
    IF tap_node_data = None \/ "on" \notin mode THEN elements
    ELSE LET target_id == tap_node_data
             existing_edges == {<<e.source, e.target>> :
                                    e \in {x \in Range(elements) : Truthy(x.source)}}
         IN  IF ~Truthy(target_id) \/ target_id = selected THEN elements
             ELSE IF <<selected, target_id>> \in existing_edges
                     \/ <<target_id, selected>> \in existing_edges THEN elements
             ELSE Append(elements, make_edge(selected, target_id))

handle_canvas_double_click(canvas_click, elements, node_id) ==
    IF canvas_click = NoPosition THEN elements
    ELSE Append(elements, make_node(node_id, "New Node", "sensors", None, canvas_click))

\* a toggle that only ever collapses
toggle_collapse_add_only(collapsed, selected) ==
    IF ~Truthy(selected) THEN collapsed ELSE collapsed \cup {selected}

toggle_collapse(collapsed, selected) ==
    IF ~Truthy(selected) THEN collapsed
    ELSE IF selected \in collapsed THEN collapsed \ {selected}
    ELSE collapsed \cup {selected}


\* dash.no_update
no_update == "no_update"

\* the first element whose data id is node_id, 0 when there is none
FirstWithId(elements, node_id) ==
    LET matches == {i \in DOMAIN elements : elements[i].id = node_id}
    IN  IF matches = {} THEN 0 ELSE CHOOSE i \in matches : \A j \in matches : i <= j

current_type_of(elements, node_id) ==
    LET i == FirstWithId(elements, node_id)
    IN  IF i = 0 THEN "building" ELSE Get(elements[i].type, "building")

current_label_of(elements, node_id) ==
    LET i == FirstWithId(elements, node_id)
    IN  IF i = 0 THEN "" ELSE Get(elements[i].customLabel, Get(elements[i].label, ""))

handle_context_action(menu_item, node_id, elements) ==
    IF menu_item = "edit-title"
    THEN [context_menu |-> "none", context_type_select |-> no_update,
          right_click_node |-> node_id, edit_label_dialog |-> "flex",
          label_input |-> current_label_of(elements, node_id), selected |-> node_id]
    ELSE IF menu_item = "change-type"
    THEN [context_menu |-> "flex",
          context_type_select |-> current_type_of(elements, node_id),
          right_click_node |-> node_id, edit_label_dialog |-> "none",
          label_input |-> "", selected |-> node_id]
    ELSE [context_menu |-> "none", context_type_select |-> no_update,
          right_click_node |-> node_id, edit_label_dialog |-> "none",
          label_input |-> "", selected |-> node_id]

show_type_dialog(selected, elements) ==
    [context_menu |-> "flex",
     context_type_select |-> current_type_of(elements, selected),
     right_click_node |-> selected]

show_edit_dialog(selected, elements) ==
    [edit_label_dialog |-> "flex",
     label_input |-> current_label_of(elements, selected),
     selected |-> selected]

relabel_element(element, new_label) ==
    [element EXCEPT !.label = new_label \o "\n" \o Get(element.typeLabel, ""),
                    !.customLabel = new_label]

\* a Save that relabels every node of the store
handle_label_edit_relabels_all(trigger_id, new_label, selected, elements) ==
    IF trigger_id = "cancel-label"
    THEN [elements |-> elements, edit_label_dialog |-> "none", label_input |-> ""]
    ELSE IF trigger_id = "save-label" /\ Truthy(new_label) /\ Truthy(selected)
    THEN [elements |-> [i \in DOMAIN elements |->
                            IF IsNode(elements[i])
                            THEN relabel_element(elements[i], new_label)
                            ELSE elements[i]],
          edit_label_dialog |-> "none", label_input |-> ""]
    ELSE [elements |-> elements, edit_label_dialog |-> "none", label_input |-> ""]

handle_label_edit(trigger_id, new_label, selected, elements) ==
    IF trigger_id = "cancel-label"
    THEN [elements |-> elements, edit_label_dialog |-> "none", label_input |-> ""]
    ELSE IF trigger_id = "save-label" /\ Truthy(new_label) /\ Truthy(selected)
    THEN [elements |-> [i \in DOMAIN elements |->
                            IF elements[i].id = selected
                            THEN relabel_element(elements[i], new_label)
                            ELSE elements[i]],
          edit_label_dialog |-> "none", label_input |-> ""]
    ELSE [elements |-> elements, edit_label_dialog |-> "none", label_input |-> ""]

\* a retype that leaves the composed label as it was
retype_element_keeps_label(element, type_key) ==
    [element EXCEPT !.type = type_key,
                    !.typeLabel = TYPE_MAP[type_key].label,
                    !.color = TYPE_MAP[type_key].color,
                    !.classes = type_key]

retype_element(element, type_key) ==
    [element EXCEPT !.type = type_key,
                    !.typeLabel = TYPE_MAP[type_key].label,
                    !.label = Get(element.customLabel, Get(element.label, ""))
                                \o "\n" \o TYPE_MAP[type_key].label,
                    !.color = TYPE_MAP[type_key].color,
                    !.classes = type_key]

\* handle_context_menu looking a key up with a default instead of TYPE_MAP[key]
handle_context_menu_with_default(trigger_id, type_key, selected, right_click, elements) ==
    IF trigger_id = "context-cancel"
    THEN [elements |-> elements, context_menu |-> "none", raises |-> FALSE]
    ELSE IF trigger_id = "context-apply"
    THEN LET target_node == IF Truthy(right_click) THEN right_click ELSE selected
             existing_building ==
                \E e \in Range(elements) : e.type = "building" /\ e.id # target_node
             known == IF type_key \in TypeKeys THEN type_key ELSE "sensors"
         IN  IF ~Truthy(target_node)
             THEN [elements |-> elements, context_menu |-> "none", raises |-> FALSE]
             ELSE IF type_key = "building" /\ existing_building
             THEN [elements |-> elements, context_menu |-> "none", raises |-> FALSE]
             ELSE [elements |-> [i \in DOMAIN elements |->
                                    IF elements[i].id = target_node
                                    THEN [retype_element(elements[i], known)
                                            EXCEPT !.type = type_key, !.classes = type_key]
                                    ELSE elements[i]],
                   context_menu |-> "none", raises |-> FALSE]
    ELSE [elements |-> elements, context_menu |-> "none", raises |-> FALSE]

\* `raises` is TRUE when TYPE_MAP[type_key] raises KeyError, and then the
\* callback writes nothing.
handle_context_menu(trigger_id, type_key, selected, right_click, elements) ==
    IF trigger_id = "context-cancel"
    THEN [elements |-> elements, context_menu |-> "none", raises |-> FALSE]
    ELSE IF trigger_id = "context-apply"
    THEN LET target_node == IF Truthy(right_click) THEN right_click ELSE selected
             existing_building ==
                \E e \in Range(elements) : e.type = "building" /\ e.id # target_node
         IN  IF ~Truthy(target_node)
             THEN [elements |-> elements, context_menu |-> "none", raises |-> FALSE]
             ELSE IF type_key = "building" /\ existing_building
             THEN [elements |-> elements, context_menu |-> "none", raises |-> FALSE]
             ELSE IF type_key \notin TypeKeys
                     /\ \E e \in Range(elements) : e.id = target_node
             THEN [elements |-> elements, context_menu |-> "none", raises |-> TRUE]
             ELSE [elements |-> [i \in DOMAIN elements |->
                                    IF elements[i].id = target_node
                                    THEN retype_element(elements[i], type_key)
                                    ELSE elements[i]],
                   context_menu |-> "none", raises |-> FALSE]
    ELSE [elements |-> elements, context_menu |-> "none", raises |-> FALSE]


-----------------------------------------------------------------------------
(* Inputs *)

\* the start of the session on the wall clock, in ms since the epoch
SessionStart == 1000000
ClockStep == DoubleTapWindow
Clock == {SessionStart + k * ClockStep : k \in 0..MaxTicks}

\* values f"node-{uuid.uuid4().hex[:6]}" may take: two of the 16^6
uuid4_ids == {"node-0a1b2c", "node-3d4e5f"}

\* rendered positions a tap reports, and canvas positions of a double click
TapPositions == {<<0, 0>>}
CanvasPositions == {<<10, 20>>}
\* texts typed into "label-input", keys chosen in "context-type-select"
LabelTexts == {"", "Pump"}
TypeChoices == {"building", "zone"}
MenuItems == {"edit-title", "change-type"}

NoSnapshot == [elements |-> <<>>, selected |-> None,
               last_tap |-> [node |-> None, timestamp |-> 0]]

\* nodes the renderer shows: only these can be tapped or right-clicked
ShownNodes ==
    {e.id : e \in {x \in Range(graph_elements) :
                        IsNode(x) /\ "hidden" \notin Range(x.classes)}}

\* sync_graph runs after every write to one of its Input stores
Render(elements, collapsed, selected) ==
    LET r == sync_graph(elements, collapsed, selected)
    IN  /\ graph_elements' = IF r.returns THEN r.elements ELSE graph_elements
        /\ selection_label' = IF r.returns THEN r.selection_label ELSE selection_label

-----------------------------------------------------------------------------
(* Initial state: app.layout *)

Init ==
    /\ elements_store = initial_elements
    /\ collapsed_store = {}
    /\ selected_store = "building"
    /\ last_tap = [timestamp |-> 0, node |-> None]
    /\ right_click_node = None
    /\ connect_mode = {}
    /\ tapNodeData = None
    /\ tapNode = NoPosition
    /\ context_menu = "none"
    /\ context_type_select = "building"
    /\ edit_label_dialog = "none"
    /\ label_input = ""
    /\ graph_elements = sync_graph(initial_elements, {}, "building").elements
    /\ selection_label = sync_graph(initial_elements, {}, "building").selection_label
    /\ now = SessionStart
    /\ pending = {}
    /\ snapshot = NoSnapshot
    /\ events = 0

-----------------------------------------------------------------------------
(* Events.  The renderer handles one user event at a time; a tap requests
   handle_node_tap and connect_nodes together, both with the State values of
   the moment of the tap, and applies each answer when it arrives. *)

\* a user event is taken up when no callback of the previous one is in flight
UserEvent ==
    /\ pending = {}
    /\ events < MaxEvents
    /\ events' = events + 1

NodeTapped(n, position) ==
    /\ UserEvent
    /\ n \in ShownNodes
    /\ tapNodeData' = n
    /\ tapNode' = position
    /\ pending' = {"handle_node_tap", "connect_nodes"}
    /\ snapshot' = [elements |-> elements_store, selected |-> selected_store,
                    last_tap |-> last_tap]
    /\ UNCHANGED <<elements_store, collapsed_store, selected_store, last_tap,
                   right_click_node, connect_mode, context_menu, context_type_select,
                   edit_label_dialog, label_input, graph_elements, selection_label, now>>

Answered(callback) ==
    /\ pending' = pending \ {callback}
    /\ snapshot' = IF pending' = {} THEN NoSnapshot ELSE snapshot

Answer_handle_node_tap(timestamp, node_id) ==
    /\ "handle_node_tap" \in pending
    /\ timestamp >= now
    /\ now' = timestamp
    /\ LET out == handle_node_tap(tapNodeData, tapNode, snapshot.elements,
                                  snapshot.selected, snapshot.last_tap, timestamp, node_id)
       IN  /\ elements_store' = out.elements
           /\ selected_store' = out.selected
           /\ last_tap' = out.last_tap
           /\ Render(out.elements, collapsed_store, out.selected)
    /\ Answered("handle_node_tap")
    /\ UNCHANGED <<collapsed_store, right_click_node, connect_mode, tapNodeData, tapNode,
                   context_menu, context_type_select, edit_label_dialog, label_input,
                   events>>

Answer_connect_nodes ==
    /\ "connect_nodes" \in pending
    /\ elements_store' = connect_nodes(connect_mode, tapNodeData, snapshot.elements,
                                       snapshot.selected)
    /\ Render(elements_store', collapsed_store, selected_store)
    /\ Answered("connect_nodes")
    /\ UNCHANGED <<collapsed_store, selected_store, last_tap, right_click_node,
                   connect_mode, tapNodeData, tapNode, context_menu, context_type_select,
                   edit_label_dialog, label_input, now, events>>

ConnectModeToggled ==
    /\ UserEvent
    /\ connect_mode' = IF "on" \in connect_mode THEN {} ELSE {"on"}
    /\ elements_store' = connect_nodes(connect_mode', tapNodeData, elements_store,
                                       selected_store)
    /\ Render(elements_store', collapsed_store, selected_store)
    /\ UNCHANGED <<collapsed_store, selected_store, last_tap, right_click_node,
                   tapNodeData, tapNode, context_menu, context_type_select,
                   edit_label_dialog, label_input, now, pending, snapshot>>

CanvasDoubleClicked(position, node_id) ==
    /\ UserEvent
    /\ elements_store' = handle_canvas_double_click(position, elements_store, node_id)
    /\ Render(elements_store', collapsed_store, selected_store)
    /\ UNCHANGED <<collapsed_store, selected_store, last_tap, right_click_node,
                   connect_mode, tapNodeData, tapNode, context_menu, context_type_select,
                   edit_label_dialog, label_input, now, pending, snapshot>>

CollapseToggled ==
    /\ UserEvent
    /\ collapsed_store' = toggle_collapse(collapsed_store, selected_store)
    /\ Render(elements_store, collapsed_store', selected_store)
    /\ UNCHANGED <<elements_store, selected_store, last_tap, right_click_node,
                   connect_mode, tapNodeData, tapNode, context_menu, context_type_select,
                   edit_label_dialog, label_input, now, pending, snapshot>>

Keep(out, old) == IF out = no_update THEN old ELSE out

ContextAction(menu_item, n) ==
    /\ UserEvent
    /\ n \in ShownNodes
    /\ LET out == handle_context_action(menu_item, n, elements_store)
       IN  /\ context_menu' = out.context_menu
           /\ context_type_select' = Keep(out.context_type_select, context_type_select)
           /\ right_click_node' = out.right_click_node
           /\ edit_label_dialog' = out.edit_label_dialog
           /\ label_input' = out.label_input
           /\ selected_store' = out.selected
    /\ Render(elements_store, collapsed_store, selected_store')
    /\ UNCHANGED <<elements_store, collapsed_store, last_tap, connect_mode, tapNodeData,
                   tapNode, now, pending, snapshot>>

ShowTypeMenuClicked ==
    /\ UserEvent
    /\ LET out == show_type_dialog(selected_store, elements_store)
       IN  /\ context_menu' = out.context_menu
           /\ context_type_select' = out.context_type_select
           /\ right_click_node' = out.right_click_node
    /\ UNCHANGED <<elements_store, collapsed_store, selected_store, last_tap,
                   connect_mode, tapNodeData, tapNode, edit_label_dialog, label_input,
                   graph_elements, selection_label, now, pending, snapshot>>

EditTitleClicked ==
    /\ UserEvent
    /\ LET out == show_edit_dialog(selected_store, elements_store)
       IN  /\ edit_label_dialog' = out.edit_label_dialog
           /\ label_input' = out.label_input
           /\ selected_store' = out.selected
    /\ UNCHANGED <<elements_store, collapsed_store, last_tap, right_click_node,
                   connect_mode, tapNodeData, tapNode, context_menu, context_type_select,
                   graph_elements, selection_label, now, pending, snapshot>>

LabelTyped(text) ==
    /\ UserEvent
    /\ edit_label_dialog = "flex"
    /\ label_input' = text
    /\ UNCHANGED <<elements_store, collapsed_store, selected_store, last_tap,
                   right_click_node, connect_mode, tapNodeData, tapNode, context_menu,
                   context_type_select, edit_label_dialog, graph_elements,
                   selection_label, now, pending, snapshot>>

LabelButtonClicked(trigger_id) ==
    /\ UserEvent
    /\ edit_label_dialog = "flex"
    /\ LET out == handle_label_edit(trigger_id, label_input, selected_store, elements_store)
       IN  /\ elements_store' = out.elements
           /\ edit_label_dialog' = out.edit_label_dialog
           /\ label_input' = out.label_input
    /\ Render(elements_store', collapsed_store, selected_store)
    /\ UNCHANGED <<collapsed_store, selected_store, last_tap, right_click_node,
                   connect_mode, tapNodeData, tapNode, context_menu, context_type_select,
                   now, pending, snapshot>>

SaveLabelClicked == LabelButtonClicked("save-label")
CancelLabelClicked == LabelButtonClicked("cancel-label")

TypeSelected(type_key) ==
    /\ UserEvent
    /\ context_menu = "flex"
    /\ context_type_select' = type_key
    /\ UNCHANGED <<elements_store, collapsed_store, selected_store, last_tap,
                   right_click_node, connect_mode, tapNodeData, tapNode, context_menu,
                   edit_label_dialog, label_input, graph_elements, selection_label,
                   now, pending, snapshot>>

ContextButtonClicked(trigger_id) ==
    /\ UserEvent
    /\ context_menu = "flex"
    /\ LET out == handle_context_menu(trigger_id, context_type_select, selected_store,
                                      right_click_node, elements_store)
       IN  /\ elements_store' = out.elements
           /\ context_menu' = IF out.raises THEN context_menu ELSE out.context_menu
    /\ Render(elements_store', collapsed_store, selected_store)
    /\ UNCHANGED <<collapsed_store, selected_store, last_tap, right_click_node,
                   connect_mode, tapNodeData, tapNode, context_type_select,
                   edit_label_dialog, label_input, now, pending, snapshot>>

ContextApplyClicked == ContextButtonClicked("context-apply")
ContextCancelClicked == ContextButtonClicked("context-cancel")

Next ==
    \/ \E n \in NodeIds(elements_store), position \in TapPositions : NodeTapped(n, position)
    \/ \E timestamp \in Clock, node_id \in uuid4_ids :
            Answer_handle_node_tap(timestamp, node_id)
    \/ Answer_connect_nodes
    \/ ConnectModeToggled
    \/ \E position \in CanvasPositions, node_id \in uuid4_ids :
            CanvasDoubleClicked(position, node_id)
    \/ CollapseToggled
    \/ \E menu_item \in MenuItems, n \in NodeIds(elements_store) : ContextAction(menu_item, n)
    \/ ShowTypeMenuClicked
    \/ EditTitleClicked
    \/ \E text \in LabelTexts : LabelTyped(text)
    \/ SaveLabelClicked
    \/ CancelLabelClicked
    \/ \E type_key \in TypeChoices : TypeSelected(type_key)
    \/ ContextApplyClicked
    \/ ContextCancelClicked

Spec == Init /\ [][Next]_vars


-----------------------------------------------------------------------------
(* The visibility functions on their own: the stores are all forests over a
   few nodes with at most one edge, the collapse sets all sets of their ids,
   and the one step renders the payload. *)

VisNodeSeq == <<"node-root", "node-0a1b2c", "node-3d4e5f", "node-6a7b8c">>
VisIds == {VisNodeSeq[i] : i \in 1..MaxVisNodes}

\* the ids reached from x by following parent fields, at most k links up
RECURSIVE Up(_, _, _)
Up(elements, x, k) ==
    IF k = 0 THEN {}
    ELSE LET ps == {e.parent : e \in {n \in Range(elements) : IsNode(n) /\ n.id = x}}
                        \ {None}
         IN  ps \cup UNION {Up(elements, p, k - 1) : p \in ps}

Ancestors(elements, x) == Up(elements, x, Len(elements))
Acyclic(elements) == \A x \in NodeIds(elements) : x \notin Ancestors(elements, x)

VisStore(par, edge) ==
    [i \in 1..MaxVisNodes |->
        make_node(VisNodeSeq[i], "New Node", "sensors", par[VisNodeSeq[i]], NoPosition)]
    \o edge

VisStores ==
    {VisStore(par, edge) :
        par \in {f \in [VisIds -> VisIds \cup {None}] :
                    Acyclic(VisStore(f, <<>>))},
        edge \in {<<>>} \cup {<<make_edge(a, b)>> : a, b \in VisIds}}

VisInit ==
    /\ elements_store \in VisStores
    /\ collapsed_store \in SUBSET VisIds
    /\ selected_store \in {"building", "node-root"}
    /\ last_tap = [timestamp |-> 0, node |-> None]
    /\ right_click_node = None
    /\ connect_mode = {}
    /\ tapNodeData = None
    /\ tapNode = NoPosition
    /\ context_menu = "none"
    /\ context_type_select = "building"
    /\ edit_label_dialog = "none"
    /\ label_input = ""
    /\ graph_elements = <<>>
    /\ selection_label = ""
    /\ now = SessionStart
    /\ pending = {}
    /\ snapshot = NoSnapshot
    /\ events = 0

VisRender ==
    /\ graph_elements = <<>>
    /\ Render(elements_store, collapsed_store, selected_store)
    /\ UNCHANGED <<elements_store, collapsed_store, selected_store, last_tap,
                   right_click_node, connect_mode, tapNodeData, tapNode, context_menu,
                   context_type_select, edit_label_dialog, label_input, now, pending,
                   snapshot, events>>

VisNext == VisRender

VisSpec == VisInit /\ [][VisNext]_vars


-----------------------------------------------------------------------------
(* The descendant traversal on every children index: the parent fields of
   the stores are all functions from the ids to the ids or None, those with
   a cycle included. *)

TraversalStores == {VisStore(par, <<>>) : par \in [VisIds -> VisIds \cup {None}]}

TraversalInit ==
    /\ elements_store \in TraversalStores
    /\ collapsed_store \in SUBSET VisIds
    /\ selected_store \in {"building", "node-root"}
    /\ last_tap = [timestamp |-> 0, node |-> None]
    /\ right_click_node = None
    /\ connect_mode = {}
    /\ tapNodeData = None
    /\ tapNode = NoPosition
    /\ context_menu = "none"
    /\ context_type_select = "building"
    /\ edit_label_dialog = "none"
    /\ label_input = ""
    /\ graph_elements = <<>>
    /\ selection_label = ""
    /\ now = SessionStart
    /\ pending = {}
    /\ snapshot = NoSnapshot
    /\ events = 0

TraversalSpec == TraversalInit /\ [][VisNext]_vars

-----------------------------------------------------------------------------
(* The dialogs on their own: the session has seen a few canvas double-clicks
   and, possibly, one pass through the type menu on node-root; from there on
   only the context menu, the two buttons and the two dialogs are used.  The
   texts include a blank one and the type keys one that is not in TYPE_MAP,
   which the dropdown does not offer but a request can carry. *)

DialogLabelTexts == {"", " ", "Pump"}
DialogTypeChoices == {"building", "zone", "chiller"}

\* the stores after at most k canvas double-clicks
RECURSIVE CanvasStores(_)
CanvasStores(k) ==
    IF k = 0 THEN {initial_elements}
    ELSE LET before == CanvasStores(k - 1)
         IN  before \cup {handle_canvas_double_click(position, elements, node_id) :
                            position \in CanvasPositions, elements \in before,
                            node_id \in uuid4_ids}

\* the session after the canvas double-clicks
DialogInitCanvas ==
    /\ elements_store \in CanvasStores(MaxCanvasNodes)
    /\ selected_store = "building"
    /\ right_click_node = None
    /\ context_type_select = "building"
    /\ last_tap = [timestamp |-> 0, node |-> None]
    /\ connect_mode = {}
    /\ tapNodeData = None
    /\ tapNode = NoPosition

\* the session after the canvas double-clicks, a tap on node a, a tick of
\* the connection-mode checklist and a tap on another node b, answered by
\* handle_node_tap first
DialogInitLinked ==
    \E elements \in CanvasStores(MaxCanvasNodes), position \in TapPositions :
        \E a, b \in NodeIds(elements) :
            /\ a # b
            /\ elements_store = connect_nodes({"on"}, b, elements, a)
            /\ selected_store = b
            /\ right_click_node = None
            /\ context_type_select = "building"
            /\ last_tap = [timestamp |-> SessionStart, node |-> b]
            /\ connect_mode = {"on"}
            /\ tapNodeData = b
            /\ tapNode = position

\* the session after the canvas double-clicks, "Change node type" on
\* node-root, a choice in the dropdown and Apply
DialogInitRetyped ==
    \E elements \in CanvasStores(MaxCanvasNodes), type_key \in TypeChoices :
        LET opened == handle_context_action("change-type", "node-root", elements)
            applied == handle_context_menu("context-apply", type_key, opened.selected,
                                           opened.right_click_node, elements)
        IN  /\ elements_store = applied.elements
            /\ selected_store = opened.selected
            /\ right_click_node = opened.right_click_node
            /\ context_type_select = type_key
            /\ last_tap = [timestamp |-> 0, node |-> None]
            /\ connect_mode = {}
            /\ tapNodeData = None
            /\ tapNode = NoPosition

DialogInit ==
    /\ DialogInitCanvas \/ DialogInitLinked \/ DialogInitRetyped
    /\ collapsed_store = {}
    /\ context_menu = "none"
    /\ edit_label_dialog = "none"
    /\ label_input = ""
    /\ graph_elements = sync_graph(elements_store, {}, selected_store).elements
    /\ selection_label = sync_graph(elements_store, {}, selected_store).selection_label
    /\ now = SessionStart
    /\ pending = {}
    /\ snapshot = NoSnapshot
    /\ events = 0

DialogNext ==
    \/ \E menu_item \in MenuItems, n \in NodeIds(elements_store) : ContextAction(menu_item, n)
    \/ ShowTypeMenuClicked
    \/ EditTitleClicked
    \/ \E text \in DialogLabelTexts : LabelTyped(text)
    \/ SaveLabelClicked
    \/ CancelLabelClicked
    \/ \E type_key \in DialogTypeChoices : TypeSelected(type_key)
    \/ ContextApplyClicked
    \/ ContextCancelClicked

DialogSpec == DialogInit /\ [][DialogNext]_vars

-----------------------------------------------------------------------------
(* Properties *)

HasHidden(rendered) == "hidden" \in Range(rendered.classes)

\* the last answer to a tap arrives: the tap has been fully processed
TapProcessed == pending # {} /\ pending' = {}

EdgeBetween(elements, a, b) ==
    \E e \in Edges(elements) :
        \/ e.source = a /\ e.target = b
        \/ e.source = b /\ e.target = a

\* C1: the element store never holds two edges between the same unordered
\* pair of ids, whatever taps, connection-mode toggles, canvas double-clicks,
\* relabels and retypes have happened.
C1_OneEdgePerPair ==
    \A i, j \in DOMAIN elements_store :
        (i # j /\ IsEdge(elements_store[i]) /\ IsEdge(elements_store[j]))
            => {elements_store[i].source, elements_store[i].target}
                    # {elements_store[j].source, elements_store[j].target}

\* connect_nodes has answered a tap that asked for the reverse of a stored edge
C1_Witness ==
    /\ pending = {"handle_node_tap"}
    /\ "on" \in connect_mode
    /\ \E e \in Edges(elements_store) :
            e.source = tapNodeData /\ e.target = snapshot.selected

\* C2: both endpoints of every stored edge are ids of nodes in the store,
\* from the initial state on (selected-store "building", one node "node-root").
C2_EdgeEndpointsExist ==
    \A e \in Edges(elements_store) :
        e.source \in NodeIds(elements_store) /\ e.target \in NodeIds(elements_store)

\* C3 as stated: no stored edge is a self-edge, and a tap in connection mode
\* on the node that is the Selection leaves the element store as it was.
C3_TapOnSelectionChangesNothing ==
    [][/\ \A e \in Edges(elements_store') : e.source # e.target
       /\ ("on" \in connect_mode /\ pending # {} /\ tapNodeData = snapshot.selected)
            => elements_store' = snapshot.elements]_vars

\* C3 amended: no stored edge is a self-edge, and once connect_nodes has
\* answered a tap in connection mode on the node that is the Selection the
\* store is the store of the moment of the tap: connect_nodes adds nothing.
C3_NoSelfEdge ==
    /\ \A e \in Edges(elements_store) : e.source # e.target
    /\ (pending = {"handle_node_tap"} /\ "on" \in connect_mode
            /\ tapNodeData = snapshot.selected)
        => elements_store = snapshot.elements

C3_Witness ==
    /\ pending = {"handle_node_tap"}
    /\ "on" \in connect_mode
    /\ tapNodeData = snapshot.selected
    /\ tapNodeData \in NodeIds(elements_store)

\* C4: every parent field names a node of the store and no node is its own
\* ancestor.
C4_ParentsExistAndAcyclic ==
    /\ \A e \in Range(elements_store) :
            (IsNode(e) /\ e.parent # None) => e.parent \in NodeIds(elements_store)
    /\ Acyclic(elements_store)


\* the proper transitive descendants of the collapsed ids, by parent fields
ProperDescendants(elements, collapsed) ==
    {x \in NodeIds(elements) : Ancestors(elements, x) \cap collapsed # {}}

\* C5: on every acyclic parent relation and every collapse set the hidden
\* set is exactly the set of proper transitive descendants of the collapsed
\* nodes.
C5_HiddenIsProperDescendants ==
    LET h == hidden_nodes(elements_store, collapsed_store)
    IN  /\ h.returns
        /\ h.hidden = ProperDescendants(elements_store, collapsed_store)

\* a rendered store where a grandchild of a collapsed node is hidden and
\* some node is not
C5_Witness ==
    /\ graph_elements # <<>>
    /\ \E c \in collapsed_store, x \in NodeIds(elements_store) :
            /\ c \in Ancestors(elements_store, x)
            /\ \E m \in Ancestors(elements_store, x) : c \in Ancestors(elements_store, m)
            /\ HasHidden(graph_elements[FirstWithId(elements_store, x)])
    /\ \E i \in DOMAIN graph_elements : ~HasHidden(graph_elements[i])

\* C6 as stated: no ancestor of a collapsed node is in the hidden set, so
\* none is rendered hidden.
C6_NoAncestorHidden ==
    graph_elements # <<>> =>
        \A c \in collapsed_store :
            \A a \in Ancestors(elements_store, c) :
                /\ a \notin hidden_nodes(elements_store, collapsed_store).hidden
                /\ ~HasHidden(graph_elements[FirstWithId(elements_store, a)])

\* C6 amended: the descendants collected for one collapsed node hold neither
\* that node nor an ancestor of it, and an ancestor of a collapsed node is in
\* the hidden set only when it is a proper descendant of another collapsed node.
C6_HiddenAncestorIsDescendant ==
    LET children_map == build_children_map(elements_store)
        hidden == hidden_nodes(elements_store, collapsed_store).hidden
    IN  \A c \in collapsed_store :
            /\ collect_descendants(c, children_map).hidden
                    \cap (Ancestors(elements_store, c) \cup {c}) = {}
            /\ \A a \in Ancestors(elements_store, c) \cap hidden :
                    \E d \in collapsed_store \ {c} : d \in Ancestors(elements_store, a)

\* an ancestor of a collapsed node is hidden after rendering
C6_Witness ==
    /\ graph_elements # <<>>
    /\ \E c \in collapsed_store :
            \E a \in Ancestors(elements_store, c) :
                HasHidden(graph_elements[FirstWithId(elements_store, a)])

\* C7: in the rendered payload an edge carries hidden iff its source or its
\* target is in the hidden node set, and a node carries hidden iff its id is.
C7_HiddenClassMatchesHiddenSet ==
    graph_elements # <<>> =>
        LET hidden == hidden_nodes(elements_store, collapsed_store).hidden
        IN  \A i \in DOMAIN elements_store :
                HasHidden(graph_elements[i]) <=>
                    IF IsEdge(elements_store[i])
                    THEN elements_store[i].source \in hidden
                            \/ elements_store[i].target \in hidden
                    ELSE elements_store[i].id \in hidden

\* a rendered edge is hidden through its target alone, next to a visible node
C7_Witness ==
    /\ graph_elements # <<>>
    /\ \E i \in DOMAIN elements_store :
            /\ IsEdge(elements_store[i])
            /\ HasHidden(graph_elements[i])
            /\ elements_store[i].source
                    \notin hidden_nodes(elements_store, collapsed_store).hidden
    /\ \E i \in DOMAIN elements_store :
            IsNode(elements_store[i]) /\ ~HasHidden(graph_elements[i])

\* C8: a second toggle_collapse, with Selection and the element store as they
\* are, undoes the first: the collapse set and the hidden set are the ones
\* before the first toggle.  A toggle that collapses the Selection renders
\* its children and their edges hidden, and one that leaves nothing collapsed
\* renders nothing hidden.
C8_ToggleTwiceRestores ==
    [][collapsed_store' # collapsed_store =>
        LET back == toggle_collapse(collapsed_store', selected_store')
            kids == {e.id : e \in {n \in Range(elements_store') :
                                        IsNode(n) /\ n.parent = selected_store'}}
        IN  /\ back = collapsed_store
            /\ hidden_nodes(elements_store', back).hidden
                    = hidden_nodes(elements_store, collapsed_store).hidden
            /\ (selected_store' \in collapsed_store'
                    /\ sync_graph(elements_store', collapsed_store', selected_store').returns)
                => \A i \in DOMAIN elements_store' :
                        (\/ elements_store'[i].id \in kids
                         \/ elements_store'[i].source \in kids
                         \/ elements_store'[i].target \in kids)
                            => HasHidden(graph_elements'[i])
            /\ collapsed_store' = {}
                => \A i \in DOMAIN graph_elements' : ~HasHidden(graph_elements'[i])
      ]_vars

\* root is collapsed and its child and the child's edge are rendered hidden
C8_Witness ==
    /\ "node-root" \in collapsed_store
    /\ \E i, j \in DOMAIN elements_store :
            /\ IsNode(elements_store[i])
            /\ elements_store[i].parent = "node-root"
            /\ HasHidden(graph_elements[i])
            /\ IsEdge(elements_store[j])
            /\ elements_store[i].id \in {elements_store[j].source, elements_store[j].target}
            /\ HasHidden(graph_elements[j])

\* C9: a tap in connection mode on a node other than the Selection, with no
\* edge between the two, ends with the edge Selection-tapped in the store; a
\* tap on the node tapped last ends with the store as it was.
C9_TapLinksAndRepeatChangesNothing ==
    [][(TapProcessed /\ "on" \in connect_mode) =>
        /\ (/\ snapshot.selected \in NodeIds(snapshot.elements)
            /\ tapNodeData # snapshot.selected
            /\ ~EdgeBetween(snapshot.elements, snapshot.selected, tapNodeData))
                => EdgeBetween(elements_store', snapshot.selected, tapNodeData)
        /\ snapshot.last_tap.node = tapNodeData
                => elements_store' = snapshot.elements
      ]_vars

\* C10: a tap fully processed while connection mode is armed leaves Selection
\* as it was at the tap.
C10_ConnectModeKeepsSelection ==
    [][(TapProcessed /\ "on" \in connect_mode)
            => selected_store' = snapshot.selected]_vars

\* C11: a tap on node n answered less than 650 ms after the previous tap on n
\* ends with the store of the moment of the tap plus exactly one node, of
\* type sensors and with parent n, and with the collapse set as it was.
C11_DoubleTapAddsOneChild ==
    [][(/\ TapProcessed
        /\ snapshot.last_tap.node = tapNodeData
        /\ now' - snapshot.last_tap.timestamp < DoubleTapWindow) =>
        /\ Len(elements_store') = Len(snapshot.elements) + 1
        /\ SubSeq(elements_store', 1, Len(snapshot.elements)) = snapshot.elements
        /\ LET child == elements_store'[Len(elements_store')]
           IN  IsNode(child) /\ child.type = "sensors" /\ child.parent = tapNodeData
        /\ collapsed_store' = collapsed_store
      ]_vars

\* handle_node_tap has answered the tap in this step
TapAnswered == "handle_node_tap" \in pending /\ "handle_node_tap" \notin pending'

Nodes(elements) == SelectSeq(elements, IsNode)

\* C12: once handle_node_tap has answered a double-tap on n with a new child,
\* a tap on n at any later time, the same millisecond included, is a single
\* tap: handle_node_tap returns the store it is given, n as Selection and
\* (n, now) as timing state.  The tap that follows a double-tap ends with the
\* nodes of the store as they were, Selection the tapped node and the timing
\* state (tapped node, now).
C12_TapAfterDoubleTapIsSingle ==
    [][/\ (TapAnswered /\ Len(elements_store') = Len(snapshot.elements) + 1) =>
            \A timestamp \in {t \in Clock : t >= now'}, node_id \in uuid4_ids :
                LET out == handle_node_tap(tapNodeData, tapNode, elements_store',
                                           selected_store', last_tap', timestamp, node_id)
                IN  /\ out.elements = elements_store'
                    /\ out.selected = tapNodeData
                    /\ out.last_tap = [node |-> tapNodeData, timestamp |-> timestamp]
       /\ (/\ TapProcessed
           /\ snapshot.last_tap.timestamp = 0
           /\ snapshot.last_tap.node # None) =>
            /\ Nodes(elements_store') = Nodes(snapshot.elements)
            /\ selected_store' = tapNodeData
            /\ last_tap' = [node |-> tapNodeData, timestamp |-> now']
            /\ collapsed_store' = collapsed_store
      ]_vars

\* handle_node_tap has answered a third tap on n in the millisecond of the
\* double-tap that gave n the child the timing state named
C12_Witness ==
    /\ pending = {"connect_nodes"}
    /\ now = SessionStart
    /\ snapshot.last_tap.timestamp = 0
    /\ \E e \in Range(snapshot.elements) :
            IsNode(e) /\ e.id = snapshot.last_tap.node /\ e.parent = tapNodeData
    /\ elements_store = snapshot.elements
    /\ selected_store = tapNodeData
    /\ last_tap = [node |-> tapNodeData, timestamp |-> now]

\* the tap being answered is on the node of the previous tap, less than
\* 650 ms after it
InDoubleTapWindow ==
    /\ snapshot.last_tap.node = tapNodeData
    /\ now' - snapshot.last_tap.timestamp < DoubleTapWindow

\* C13 as stated: a tap that is not on the node of the previous tap within
\* 650 ms of it ends with the element store as it was, Selection the tapped
\* node and the timing state (tapped node, now).
C13_SingleTapKeepsStore ==
    [][(TapProcessed /\ ~InDoubleTapWindow) =>
        /\ elements_store' = snapshot.elements
        /\ selected_store' = tapNodeData
        /\ last_tap' = [node |-> tapNodeData, timestamp |-> now']
      ]_vars

\* C13 amended: a tap outside the window (first tap, other node, 650 ms or
\* more) adds no node, makes the tapped node the Selection and records
\* (tapped node, now); the store it ends with is the store as it was or,
\* in connection mode only, the answer of connect_nodes.
C13_SingleTapAddsNoNode ==
    [][(TapProcessed /\ ~InDoubleTapWindow) =>
        /\ Nodes(elements_store') = Nodes(snapshot.elements)
        /\ elements_store' \in {snapshot.elements,
                                connect_nodes(connect_mode, tapNodeData,
                                              snapshot.elements, snapshot.selected)}
        /\ "on" \notin connect_mode => elements_store' = snapshot.elements
        /\ selected_store' = tapNodeData
        /\ last_tap' = [node |-> tapNodeData, timestamp |-> now']
      ]_vars

\* handle_node_tap has answered a tap on the node of the previous tap exactly
\* 650 ms after it, as a single tap
C13_Witness ==
    /\ pending = {"connect_nodes"}
    /\ snapshot.last_tap.node = tapNodeData
    /\ now - snapshot.last_tap.timestamp = DoubleTapWindow
    /\ elements_store = snapshot.elements
    /\ selected_store = tapNodeData
    /\ last_tap = [node |-> tapNodeData, timestamp |-> now]

BuildingNodes(elements) ==
    {i \in DOMAIN elements : IsNode(elements[i]) /\ elements[i].type = "building"}

\* C14: the store never holds two nodes of type building; Apply with the key
\* building on a node while another node is a building leaves the store as
\* it was; the node a double-tap or a canvas double-click appends has type
\* sensors.
C14_AtMostOneBuilding ==
    /\ Cardinality(BuildingNodes(elements_store)) <= 1
    /\ \A target \in NodeIds(elements_store) :
            (\E e \in Range(elements_store) :
                IsNode(e) /\ e.type = "building" /\ e.id # target)
                => handle_context_menu("context-apply", "building", target, target,
                                       elements_store).elements = elements_store
    /\ \A node_id \in uuid4_ids, n \in NodeIds(elements_store) :
            LET tapped == handle_node_tap(n, NoPosition, elements_store, n,
                                          [node |-> n, timestamp |-> now], now, node_id)
                clicked == handle_canvas_double_click(<<0, 0>>, elements_store, node_id)
            IN  /\ tapped.elements[Len(tapped.elements)].type = "sensors"
                /\ clicked[Len(clicked)].type = "sensors"

\* type keys a request can carry that TYPE_MAP does not have
UnknownKeys == (DialogTypeChoices \ TypeKeys) \cup {None}

\* ids that name no element of any store
AbsentIds == {"building", "node-ffffff"}

\* Apply with an unknown key returns, or raises and so leaves, the store it
\* is given, whichever id the Selection or the right-clicked node is
UnknownKeyKeepsStore(elements) ==
    \A type_key \in UnknownKeys, target \in NodeIds(elements) \cup AbsentIds :
        /\ handle_context_menu("context-apply", type_key, target, None, elements).elements
                = elements
        /\ handle_context_menu("context-apply", type_key, None, target, elements).elements
                = elements

\* C15: Apply with a type key that is not one of the seven keys of TYPE_MAP
\* leaves the element store as it is, for a target in the store and for one
\* that is not, on every store; a step taken with such a key chosen in the
\* open type menu, other than a click in the label dialog, changes no element.
C15_UnknownKeyChangesNothing ==
    [][/\ UnknownKeyKeepsStore(elements_store)
       /\ UnknownKeyKeepsStore(elements_store')
       /\ (/\ context_menu = "flex"
           /\ context_type_select \notin TypeKeys
           /\ edit_label_dialog' = edit_label_dialog)
            => elements_store' = elements_store
      ]_vars

\* the type menu is open on a node of the store with a key TYPE_MAP does not
\* have: the state an Apply with that key starts from and, since the
\* callback raises, ends in
C15_Witness ==
    /\ context_menu = "flex"
    /\ context_type_select \notin TypeKeys
    /\ right_click_node \in NodeIds(elements_store)
    /\ handle_context_menu("context-apply", context_type_select, selected_store,
                           right_click_node, elements_store).raises

\* the texts that are empty or made of white space only
BlankTexts == {text \in DialogLabelTexts : text \in {"", " "}}

\* C16: closing the label dialog, by Save or otherwise, while its text is
\* empty or blank or while Selection is not the id of a node of the store,
\* leaves the element store as it was.
C16_BlankSaveChangesNothing ==
    [][(/\ edit_label_dialog = "flex"
        /\ edit_label_dialog' = "none"
        /\ \/ label_input \in BlankTexts
           \/ selected_store \notin NodeIds(elements_store))
            => elements_store' = elements_store
      ]_vars

ElementIds(elements) == {e.id : e \in Range(elements)}

\* C17: no step deletes a node or an edge: the ids of the element store
\* after a step include the ids before it.
C17_ElementIdsOnlyGrow ==
    [][ElementIds(elements_store) \subseteq ElementIds(elements_store')]_vars

\* the answer of handle_node_tap to the tap being processed was a new child
ChildAnswered == last_tap'.timestamp = 0 /\ last_tap'.node # None

\* the answer of connect_nodes to the tap being processed holds a new edge
EdgeAnswered ==
    connect_nodes(connect_mode, tapNodeData, snapshot.elements, snapshot.selected)
        # snapshot.elements

\* C18: when the answers of handle_node_tap and connect_nodes to one tap have
\* both been applied, in either order, the store is the store of the moment
\* of the tap plus what each of the two appended: no answer overwrites the
\* other's.
C18_BothAnswersKept ==
    [][TapProcessed =>
        /\ Len(elements_store') = Len(snapshot.elements)
                + (IF ChildAnswered THEN 1 ELSE 0) + (IF EdgeAnswered THEN 1 ELSE 0)
        /\ SubSeq(elements_store', 1, Len(snapshot.elements)) = snapshot.elements
        /\ EdgeAnswered => make_edge(snapshot.selected, tapNodeData) \in Range(elements_store')
        /\ ChildAnswered => \E e \in Range(elements_store') :
                                IsNode(e) /\ e.id = last_tap'.node /\ e.parent = tapNodeData
      ]_vars

\* the nodes of the store whose id is selected
SelectedNodes(elements, selected) ==
    {i \in DOMAIN elements : IsNode(elements[i]) /\ elements[i].id = selected}

\* C19: Selection is None or the id of exactly one node of the element
\* store, in the initial state and in every state after it.
C19_SelectionIsOneNode ==
    selected_store = None
        \/ Cardinality(SelectedNodes(elements_store, selected_store)) = 1

\* C20: collect_descendants returns for every root on every children index,
\* an index with a cycle (a node that is its own parent) included.
C20_TraversalReturns ==
    \A root_id \in NodeIds(elements_store) :
        collect_descendants(root_id, build_children_map(elements_store)).returns

\* the derived fields of a node agree with its type and its custom label
Consistent(e) ==
    IsNode(e) =>
        /\ e.type \in TypeKeys
        /\ e.typeLabel = TYPE_MAP[e.type].label
        /\ e.color = TYPE_MAP[e.type].color
        /\ e.classes = e.type
        /\ e.label = e.customLabel \o "\n" \o e.typeLabel

\* C21: every node of the store has typeLabel and color of TYPE_MAP[type],
\* classes equal to type and label equal to customLabel, a newline and
\* typeLabel; so has the child a double-tap would append; and Save with
\* "Pump" then Save with "Valve" on a node leaves it with customLabel
\* "Valve" and a label that starts with "Valve".
C21_DerivedFieldsConsistent ==
    /\ \A e \in Range(elements_store) : Consistent(e)
    /\ \A n \in NodeIds(elements_store), node_id \in uuid4_ids :
            LET tapped == handle_node_tap(n, NoPosition, elements_store, n,
                                          [node |-> n, timestamp |-> now], now, node_id)
            IN  Consistent(tapped.elements[Len(tapped.elements)])
    /\ \A n \in NodeIds(elements_store) :
            LET once == handle_label_edit("save-label", "Pump", n, elements_store).elements
                twice == handle_label_edit("save-label", "Valve", n, once).elements
            IN  \A i \in DOMAIN twice :
                    twice[i].id = n =>
                        /\ twice[i].customLabel = "Valve"
                        /\ twice[i].label = "Valve\n" \o twice[i].typeLabel
                        /\ Consistent(twice[i])

\* a node made by a canvas double-click or by initial_elements has been
\* retyped and then relabelled
C21_Witness ==
    \E e \in Range(elements_store) :
        IsNode(e) /\ e.type = "zone" /\ e.customLabel = "Pump"

\* C22: the id of the node a double-tap or a canvas double-click appends is
\* the id of no element of the store it is appended to, so no two nodes of
\* the store share an id.
C22_NodeIdsDistinct ==
    \A i, j \in DOMAIN elements_store :
        (i # j /\ IsNode(elements_store[i]) /\ IsNode(elements_store[j]))
            => elements_store[i].id # elements_store[j].id

\* C23: a change of the connection-mode checklist, with no new tap, leaves
\* the element store as it was.
C23_ToggleKeepsStore ==
    [][connect_mode' # connect_mode => elements_store' = elements_store]_vars

\* the id Save of the label dialog relabels: handle_label_edit's `selected`
LabelTarget == selected_store

\* the id Apply of the type menu retypes: handle_context_menu's target_node
TypeTarget == IF Truthy(right_click_node) THEN right_click_node ELSE selected_store

\* C24: a tap answered while the label dialog is open on a node of the
\* store leaves the node Save will relabel the one the dialog was opened
\* for, and a tap answered while the type menu is open on a node of the
\* store leaves the node Apply will retype the one the menu was opened for.
C24_DialogKeepsItsNode ==
    [][TapAnswered =>
        /\ (edit_label_dialog = "flex" /\ LabelTarget \in NodeIds(snapshot.elements))
                => LabelTarget' = LabelTarget
        /\ (context_menu = "flex" /\ TypeTarget \in NodeIds(snapshot.elements))
                => TypeTarget' = TypeTarget
      ]_vars

\* the fields of an element no relabel and no retype is to touch
FrameFields(e) == <<e.id, e.parent, e.position, e.source, e.target>>

\* C25: a Save or an Apply leaves the store with the same number of elements
\* in the same order, every edge and every node whose id is not the target's
\* as it was, and the target's id, parent and position as they were; it
\* leaves the collapse set and Selection as they were; Cancel of the label
\* dialog and Cancel of the type menu return the store they are given.
C25_OnlyTargetFieldsChange ==
    [][/\ Len(elements_store') = Len(elements_store)
       /\ \A i \in DOMAIN elements_store :
            /\ FrameFields(elements_store'[i]) = FrameFields(elements_store[i])
            /\ IsEdge(elements_store[i]) => elements_store'[i] = elements_store[i]
       /\ (edit_label_dialog = "flex" /\ edit_label_dialog' = "none") =>
            \A i \in DOMAIN elements_store :
                elements_store[i].id # LabelTarget
                    => elements_store'[i] = elements_store[i]
       /\ (context_menu = "flex" /\ context_menu' = "none") =>
            \A i \in DOMAIN elements_store :
                elements_store[i].id # TypeTarget
                    => elements_store'[i] = elements_store[i]
       /\ collapsed_store' = collapsed_store
       /\ elements_store' # elements_store => selected_store' = selected_store
       /\ handle_label_edit("cancel-label", label_input, selected_store,
                            elements_store).elements = elements_store
       /\ handle_context_menu("context-cancel", context_type_select, selected_store,
                              right_click_node, elements_store).elements = elements_store
      ]_vars

\* a node of a store with an edge and a node of another id has been
\* relabelled, and the other node has not
C25_Witness ==
    /\ Edges(elements_store) # {}
    /\ \E e, other \in Range(elements_store) :
            /\ IsNode(e) /\ IsNode(other)
            /\ e.id # other.id
            /\ e.customLabel = "Pump"
            /\ other.customLabel # "Pump"

====
